---- MODULE Spec2Model ----
(***************************************************************************)
(* djsframe: the command registry (FrameRegistry), the command descriptor  *)
(* (FrameCommand), the group (FrameGroup), the client (FrameClient) and    *)
(* the dispatcher (FrameDispatcher) as one state machine.                  *)
(*                                                                         *)
(* Strings that the code lower-cases, slices or splits are sequences of    *)
(* one-character strings; the character "@" stands for the bot's mention   *)
(* tag.  A Collection (an insertion-ordered Map) is a sequence of          *)
(* [k |-> key, v |-> value] entries.  A JavaScript object is a record; a   *)
(* property that may be undefined or null is None or Some(value).  An      *)
(* operation that throws leaves the kind of the error in result.status and *)
(* the state as it was when the error was thrown.                          *)
(***************************************************************************)
EXTENDS Integers, Sequences, FiniteSets, TLC

VARIABLES
  commands,        \* FrameRegistry#commands : Collection name -> command
  groups,          \* FrameRegistry#groups   : Collection id -> group object
  unknownCommand,  \* FrameRegistry#unknownCommand
  types,           \* FrameRegistry#types    : Collection id -> argument type
  cmd,             \* the FrameCommand instances: group, _globalEnabled, _throttles
  guildDisabled,   \* what is disabled in the guild, by the guild's own flags
  options,         \* FrameClient#options : prefix, owners
  provider,        \* FrameClient#provider
  settings,        \* SQLiteProvider#settings : Map scope -> settings object
  db,              \* the rows of the settings table: guild, settings text
  broadcasts,      \* the scripts given to client.shard.broadcastEval
  runs,            \* handler runs at this instant, per command and user
  clock,           \* Date.now(), in seconds
  timers,          \* the timeouts set with client.setTimeout that are pending
  emitted,         \* events the last operation emitted on the client
  result           \* how the last operation ended

vars == <<commands, groups, unknownCommand, types, cmd, guildDisabled, options,
          provider, settings, db, broadcasts, runs, clock, timers, emitted, result>>

Null == "null"

\* ---------------------------------------------------------------- bounds
MaxBatch == 2
MaxRuns == 3

\* The clock stops at MaxTime
MaxTime == 5

\* ---------------------------------------------------------------- strings
ping == <<"p", "i", "n", "g">>
play == <<"p", "l", "a", "y">>
demo == <<"d", "e", "m", "o">>
unk == <<"u", "n", "k">>
util == <<"u", "t", "i", "l">>
global == <<"g", "l", "o", "b", "a", "l">>
music == <<"m", "u", "s", "i", "c">>

\* String.prototype.toLowerCase, character by character
LowerChar(ch) ==
  CASE ch = "P" -> "p"
    [] ch = "I" -> "i"
    [] ch = "N" -> "n"
    [] ch = "G" -> "g"
    [] ch = "D" -> "d"
    [] ch = "U" -> "u"
    [] ch = "M" -> "m"
    [] OTHER -> ch

toLowerCase(s) == [i \in DOMAIN s |-> LowerChar(s[i])]

\* Array.prototype.includes
includes(arr, x) == \E i \in DOMAIN arr : arr[i] = x

\* ---------------------------------------------------------------- collections
has(coll, key) == \E i \in DOMAIN coll : coll[i].k = key

get(coll, key) ==
  IF has(coll, key)
  THEN coll[CHOOSE i \in DOMAIN coll : coll[i].k = key].v
  ELSE Null

\* Map.prototype.set: replaces the value under an existing key, else appends
set(coll, key, val) ==
  IF has(coll, key)
  THEN [i \in DOMAIN coll |-> IF coll[i].k = key THEN [k |-> key, v |-> val] ELSE coll[i]]
  ELSE Append(coll, [k |-> key, v |-> val])

values(coll) == {coll[i].v : i \in DOMAIN coll}

\* ---------------------------------------------------------------- command infos
\* A, B, D, U and M are command classes with a well-formed info; N has a name
\* that is not lower case, T a throttling policy of no usages
CmdIds == {"A", "B", "D", "U", "M", "N", "T"}

\* An optional value: None is null/undefined, Some(x) is x
None == <<>>
Some(x) == <<x>>
Val(o) == o[1]

NoInfo ==
  [aliases |-> <<>>, guildOnly |-> FALSE, ownerOnly |-> FALSE,
   clientPermissions |-> None, userPermissions |-> None, throttling |-> None,
   guarded |-> FALSE, unknown |-> FALSE, args |-> <<>>]

\* The CommandInfo each command class passes to the FrameCommand constructor
Info(c) ==
  CASE c = "A" -> [NoInfo EXCEPT !.aliases = <<<<"p">>>>,
                                 !.throttling = Some([usages |-> 2, duration |-> 2]),
                                 !.args = <<[key |-> "text", type |-> "string"]>>]
                  @@ [name |-> ping, group |-> util, memberName |-> "ping"]
    [] c = "B" -> [NoInfo EXCEPT !.guildOnly = TRUE, !.unknown = TRUE]
                  @@ [name |-> <<"p">>, group |-> util, memberName |-> "p"]
    [] c = "D" -> [NoInfo EXCEPT !.aliases = <<<<"d">>, demo>>,
                                 !.ownerOnly = TRUE, !.guarded = TRUE]
                  @@ [name |-> demo, group |-> util, memberName |-> "Demo"]
    [] c = "U" -> [NoInfo EXCEPT !.unknown = TRUE]
                  @@ [name |-> unk, group |-> util, memberName |-> "unknown"]
    [] c = "M" -> [NoInfo EXCEPT !.aliases = <<<<"p">>>>,
                                 !.userPermissions = Some({"KICK_MEMBERS"})]
                  @@ [name |-> play, group |-> music, memberName |-> "play"]
    [] c = "N" -> NoInfo @@ [name |-> <<"P", "i", "n", "g">>, group |-> util,
                             memberName |-> "Ping"]
    [] c = "T" -> [NoInfo EXCEPT !.throttling = Some([usages |-> 0, duration |-> 2])]
                  @@ [name |-> <<"t">>, group |-> util, memberName |-> "t"]

\* ---------------------------------------------------------------- FrameGroup
\* new FrameGroup(client, id, name): the object has client, id and name, and
\* neither a commands collection nor a _globalEnabled flag
FrameGroup(id, name) ==
  [id |-> id, name |-> IF name = <<>> THEN id ELSE name,
   commands |-> None, _globalEnabled |-> None]

\* The FrameGroup constructor's check on a string id
FrameGroupThrows(id) == id # toLowerCase(id)

\* A group object as the registry and the command read it (Collection<string,
\* CommandGroup>): it holds its member commands and a global enabled flag
CommandGroup(id, name) ==
  [id |-> id, name |-> name, commands |-> Some(<<>>), _globalEnabled |-> Some(TRUE)]

\* ---------------------------------------------------------------- FrameCommand
\* The permission names of util.permissions
permissions == {"KICK_MEMBERS", "BAN_MEMBERS", "SEND_MESSAGES"}

\* The permission checks alone
validateRestPermissionsOnly(info) ==
  IF info.clientPermissions # None /\ Val(info.clientPermissions) \ permissions # {}
  THEN "Invalid command clientPermission"
  ELSE IF info.userPermissions # None /\ Val(info.userPermissions) \ permissions # {}
  THEN "Invalid command userPermission"
  ELSE "ok"

\* The checks of validateInfo that come after the group checks
validateRest(info) ==
  IF info.clientPermissions # None /\ Val(info.clientPermissions) \ permissions # {}
  THEN "Invalid command clientPermission"
  ELSE IF info.userPermissions # None /\ Val(info.userPermissions) \ permissions # {}
  THEN "Invalid command userPermission"
  ELSE IF info.throttling # None /\ Val(info.throttling).usages < 1
  THEN "Command throttling usages must be at least 1."
  ELSE IF info.throttling # None /\ Val(info.throttling).duration < 1
  THEN "Command throttling duration must be at least 1."
  ELSE "ok"

\* validateInfo without the lookup of the group in the registry
validateInfoAnyGroup(grps, info) ==
  IF info.name # toLowerCase(info.name) THEN "Command name must be lower case"
  ELSE IF info.group = <<>> THEN "A Command group must be specified"
  ELSE IF info.group # toLowerCase(info.group) THEN "Command group must be lower case"
  ELSE validateRest(info)

\* validateInfo(client, info): the message of the first check that fails, or
\* "ok"; grps is client.registry.groups
validateInfo(grps, info) ==
  IF info.name # toLowerCase(info.name) THEN "Command name must be lower case"
  ELSE IF info.group = <<>> THEN "A Command group must be specified"
  ELSE IF info.group # toLowerCase(info.group) THEN "Command group must be lower case"
  ELSE IF ~has(grps, info.group) THEN "The specified group id does not exist"
  ELSE validateRest(info)

\* The kind of error validateInfo throws with a message
errorKind(msg) ==
  IF msg \in {"Invalid command clientPermission", "Invalid command userPermission",
              "Command throttling usages must be at least 1.",
              "Command throttling duration must be at least 1."}
  THEN "RangeError"
  ELSE "Error"

\* this.argsCollector: whether the constructor made a collector, which it
\* does for an info with a non-empty args
ArgumentCollector(args) == args # <<>>

\* A command class that was not instantiated
NoCommand == [constructed |-> FALSE, group |-> [isObject |-> FALSE, id |-> <<>>],
              _globalEnabled |-> TRUE, _throttles |-> <<>>, argsCollector |-> FALSE]

\* The fields the constructor sets: group is the info's group id (a string)
NewCommand(c) ==
  [constructed |-> TRUE, group |-> [isObject |-> FALSE, id |-> Info(c).group],
   _globalEnabled |-> TRUE, _throttles |-> <<>>,
   argsCollector |-> ArgumentCollector(Info(c).args)]

\* ---------------------------------------------------------------- FrameRegistry
\* The registry and what an operation on it leaves behind, as one record
Registry ==
  [commands |-> commands, groups |-> groups, unknownCommand |-> unknownCommand,
   types |-> types, cmd |-> cmd, guildDisabled |-> guildDisabled,
   emitted |-> <<>>, status |-> "ok", error |-> ""]

Throw(R, kind, msg) == [R EXCEPT !.status = kind, !.error = msg]
Emit(R, ev) == [R EXCEPT !.emitted = Append(@, ev)]

\* The same search over the commands' names alone, their aliases left out
nameTakenNamesOnly(R, name) ==
  \E i \in DOMAIN R.commands : Info(R.commands[i].v).name = name

\* cmd => cmd.name === name || cmd.aliases.includes(name), over this.commands
nameTaken(R, name) ==
  \E i \in DOMAIN R.commands :
    \/ Info(R.commands[i].v).name = name
    \/ includes(Info(R.commands[i].v).aliases, name)

\* registerGroup with the group set whether or not the id is registered
registerGroupOverwrites(R, id, name) ==
  IF FrameGroupThrows(id) THEN Throw(R, "Error", "Group ID must be lowercase.")
  ELSE Emit([R EXCEPT !.groups = set(@, id, FrameGroup(id, name))], "groupRegister")

\* registerGroup(id, name)
registerGroup(R, id, name) ==
  IF FrameGroupThrows(id) THEN Throw(R, "Error", "Group ID must be lowercase.")
  ELSE IF has(R.groups, id) THEN Emit(R, "warn")
  ELSE Emit([R EXCEPT !.groups = set(@, id, FrameGroup(id, name))], "groupRegister")

\* The conflict checks of registerCommand: the command's name, then each alias
conflicts(R, info) ==
  \/ nameTaken(R, info.name)
  \/ \E a \in DOMAIN info.aliases : nameTaken(R, info.aliases[a])

\* The unknown check with its second operand left out
unknownTakenNever(R, info) == info.unknown /\ FALSE

\* command.unknown && this.unknownCommand
unknownTaken(R, info) == info.unknown /\ R.unknownCommand # Null

\* registerCommand(command): command is a command class ("class", instantiated
\* here), an instance made earlier ("instance") or some other object ("other").
\* An instance made here is dropped when the call throws.
registerCommand(R, form, c) ==
  LET made == IF form = "class" THEN validateInfo(R.groups, Info(c)) ELSE "ok"
      command == IF form = "class" THEN NewCommand(c) ELSE R.cmd[c]
      info == Info(c)
      grpIdx == {i \in DOMAIN R.groups :
                   ~command.group.isObject /\ R.groups[i].v.id = command.group.id}
  IN
  IF form = "other" THEN Throw(R, "Error", "Invalid command object to register")
  ELSE IF made # "ok" THEN Throw(R, errorKind(made), made)
  ELSE IF conflicts(R, info)
       THEN Throw(R, "Error", "A command with the name/alias is already registered.")
  ELSE IF grpIdx = {} THEN Throw(R, "Error", "Group is not registered.")
  ELSE
    LET gi == CHOOSE i \in grpIdx : \A j \in grpIdx : i <= j
        group == R.groups[gi].v
    IN
    IF group.commands = None
    THEN Throw(R, "TypeError", "Cannot read properties of undefined (reading 'some')")
    ELSE IF \E m \in DOMAIN Val(group.commands) :
              Info(Val(group.commands)[m].v).memberName = info.memberName
         THEN Throw(R, "Error", "A command with the member name is already registered")
    ELSE IF unknownTaken(R, info)
         THEN Throw(R, "Error", "An unknown command is already registered.")
    ELSE
      LET R2 == [R EXCEPT
                   !.cmd[c] = [command EXCEPT !.group = [isObject |-> TRUE, id |-> group.id]],
                   !.groups[gi].v.commands = Some(set(Val(@), info.name, c)),
                   !.commands = set(@, info.name, c),
                   !.unknownCommand = IF info.unknown THEN c ELSE @]
      IN Emit(Emit(R2, "commandRegister"), "debug")

\* registerCommands as a transaction: a throw restores the registry
RECURSIVE registerCommandsAtomic(_, _)
registerCommandsAtomic(R, list) ==
  IF list = <<>> \/ R.status # "ok" THEN R
  ELSE LET done == registerCommandsAtomic(registerCommand(R, list[1].form, list[1].c),
                                          Tail(list))
       IN IF done.status = "ok" THEN done ELSE Throw(R, done.status, done.error)

\* registerCommands(commands): forEach, which the first throw ends
RECURSIVE registerCommands(_, _)
registerCommands(R, list) ==
  IF list = <<>> \/ R.status # "ok" THEN R
  ELSE registerCommands(registerCommand(R, list[1].form, list[1].c), Tail(list))

\* ---------------------------------------------------------------- argument types
\* The argument type classes: E is DefaultEmojiArgumentType, E2 a type of the
\* host's with the same id, S a type with another id
TypeClasses == {"E", "E2", "S"}

\* new ArgumentType(client, id): the id a type class passes to super
typeId(t) == IF t = "S" THEN "string" ELSE "default-emoji"

\* registerType without the lookup of the id: the type is set and announced
registerTypeAnyway(R, form, t) ==
  IF form = "other" THEN Throw(R, "Error", "Invalid type object to register")
  ELSE Emit(Emit([R EXCEPT !.types = set(@, typeId(t), t)], "typeRegister"), "debug")

\* registerType(type): type is an argument type class or instance ("type") or
\* some other object ("other")
registerType(R, form, t) ==
  IF form = "other" THEN Throw(R, "Error", "Invalid type object to register")
  ELSE IF has(R.types, typeId(t))
       THEN Throw(R, "Error", "An argument type with the ID is already registered.")
  ELSE Emit(Emit([R EXCEPT !.types = set(@, typeId(t), t)], "typeRegister"), "debug")

\* The group object a command's group property refers to, None for a group id
groupOf(c) ==
  IF cmd[c].group.isObject THEN Some(get(groups, cmd[c].group.id)) ELSE None

\* ---------------------------------------------------------------- values
\* What a call gives back: how it ended and, when it returned, the value.
\* A JavaScript true, false or undefined is "true", "false" or "undefined"; any
\* other string is that string.
Ret(v) == [status |-> "ok", value |-> v]
Thrown(kind) == [status |-> kind, value |-> "undefined"]
Bool(b) == IF b THEN "true" ELSE "false"
truthy(v) == v \notin {"false", "undefined", ""}

\* ---------------------------------------------------------------- FrameClient
BotId == "bot"
Senders == {"u1"}
Guild1 == <<"1">>

\* The methods an Array has among those the code calls on options.owners
ArrayMethods == {"includes", "some", "map", "join"}

\* isOwner(user): this.options.owners.has(this.users.resolve(user).id)
isOwner(user) ==
  IF options.owners.isArray /\ "has" \notin ArrayMethods
  THEN Thrown("TypeError")
  ELSE Ret(Bool(user \in options.owners.ids))

\* client.setTimeout(fn, delay) with fn the deletion of the user's throttle
\* object of the command c: the pending timeouts with the new one
setTimeout(c, userID, delay) ==
  Append(timers, [command |-> c, userID |-> userID, due |-> clock + delay])

\* A variant that sets the timeout anew on every call
throttleRescheduling(R, c, userID) ==
  IF Info(c).throttling = None THEN [R |-> R, value |-> "null", timers |-> timers]
  ELSE
    LET own == isOwner(userID)
    IN IF own.status # "ok"
       THEN [R |-> Throw(R, own.status, "this.options.owners.has is not a function"),
             value |-> "undefined", timers |-> timers]
       ELSE IF truthy(own.value) THEN [R |-> R, value |-> "null", timers |-> timers]
       ELSE [R |-> [R EXCEPT !.cmd[c]._throttles =
                               IF has(@, userID) THEN @
                               ELSE set(@, userID, [start |-> clock, usages |-> 0,
                                                    timeout |-> TRUE])],
             value |-> "throttle",
             timers |-> setTimeout(c, userID, Val(Info(c).throttling).duration)]

\* throttle(userID) of the command c: the registry record it leaves, the
\* value it returns, "null", or "throttle" for the user's throttle object, and
\* the pending timeouts.  A throttle object holds its start, its usages and
\* the timeout that deletes it.
throttle(R, c, userID) ==
  IF Info(c).throttling = None THEN [R |-> R, value |-> "null", timers |-> timers]
  ELSE
    LET own == isOwner(userID)
    IN IF own.status # "ok"
       THEN [R |-> Throw(R, own.status, "this.options.owners.has is not a function"),
             value |-> "undefined", timers |-> timers]
       ELSE IF truthy(own.value) THEN [R |-> R, value |-> "null", timers |-> timers]
       ELSE IF has(R.cmd[c]._throttles, userID)
       THEN [R |-> R, value |-> "throttle", timers |-> timers]
       ELSE [R |-> [R EXCEPT !.cmd[c]._throttles =
                               set(@, userID, [start |-> clock, usages |-> 0,
                                               timeout |-> TRUE])],
             value |-> "throttle",
             timers |-> setTimeout(c, userID, Val(Info(c).throttling).duration)]

\* The methods of FrameRegistry
FrameRegistryMethods ==
  {"registerGroup", "registerGroups", "registerCommand", "registerCommands",
   "registerCommandsIn", "setCommandDir", "registerType", "registerTypes",
   "registerTypesIn", "registerDefaults", "registerDefaultGroups",
   "registerDefaultCommands", "registerDefaultTypes"}

\* unload() of the command c: the path is asked of the registry, the module is
\* dropped from the require cache and the command is unregistered; the
\* timeouts of the throttle objects are not touched
unload(R, c) ==
  IF "resolveCommandPath" \notin FrameRegistryMethods
  THEN Throw(R, "TypeError", "this.client.registry.resolveCommandPath is not a function")
  ELSE IF "unregisterCommand" \notin FrameRegistryMethods
  THEN Throw(R, "TypeError", "this.client.registry.unregisterCommand is not a function")
  ELSE [R EXCEPT !.commands = SelectSeq(@, LAMBDA e : e.v # c)]

\* ---------------------------------------------------------------- SQLiteProvider
\* What an instance of SQLiteProvider has; getGuildID is declared static
SQLiteProviderMethods ==
  {"init", "destroy", "get", "set", "remove", "clear", "updateOtherShards"}

\* The names the module sqlite.js declares or imports
SQLiteModuleScope == {"SQLiteProvider"}

\* A settings object is a sequence of [k |-> key, v |-> value] entries, the
\* value None for undefined.  The text of a row is what JSON.parse makes of
\* it: valid with the object it holds, or not valid.
prop(obj, key) == IF has(obj, key) THEN get(obj, key) ELSE None

\* JSON.stringify(settings): a property whose value is undefined is left out
JSONstringify(obj) == [valid |-> TRUE, obj |-> SelectSeq(obj, LAMBDA e : e.v # None)]

\* JSON.parse(text)
JSONparse(text) == IF text.valid THEN Ret(text.obj) ELSE Thrown("SyntaxError")

\* INSERT OR REPLACE INTO settings VALUES(guild, text); guild is the key
insertOrReplace(rows, guild, text) ==
  SelectSeq(rows, LAMBDA r : r.guild # guild) \o <<[guild |-> guild, settings |-> text]>>

\* DELETE FROM settings WHERE guild = ?
deleteRow(rows, guild) == SelectSeq(rows, LAMBDA r : r.guild # guild)

\* The provider's state and how a call on it ended
Provider ==
  [settings |-> settings, db |-> db, broadcasts |-> broadcasts, emitted |-> <<>>,
   status |-> "ok", value |-> None]

\* init(client): the rows are parsed one by one into the cache, a row that
\* does not parse is warned about and skipped
RECURSIVE loadRows(_, _)
loadRows(P, rows) ==
  IF rows = <<>> THEN P
  ELSE LET row == rows[1]
           parsed == JSONparse(row.settings)
           guild == IF row.guild # <<"0">> THEN row.guild ELSE global
       IN IF parsed.status # "ok"
          THEN loadRows([P EXCEPT !.emitted = Append(@, "warn")], Tail(rows))
          ELSE loadRows([P EXCEPT !.settings = set(@, guild, parsed.value)], Tail(rows))

init(P) == loadRows(P, P.db)

\* static getGuildID(guild), guild a string
getGuildID(guild) ==
  IF "Guild" \notin SQLiteModuleScope THEN Thrown("ReferenceError")
  ELSE IF guild = global THEN Ret(global)
  ELSE IF guild # <<>> /\ \A i \in DOMAIN guild : guild[i] \in {"0", "1", "2"} THEN Ret(guild)
  ELSE Thrown("TypeError")

\* this.getGuildID(guild), this an instance
thisGetGuildID(guild) ==
  IF "getGuildID" \notin SQLiteProviderMethods THEN Thrown("TypeError")
  ELSE getGuildID(guild)

\* updateOtherShards(key, val): nothing without client.shard
updateOtherShards(P, shard, key, val) ==
  IF ~shard THEN P
  ELSE [P EXCEPT !.broadcasts = Append(@, [key |-> key, val |-> val])]

\* get(guild, key, defVal)
providerGet(guild, key, defVal) ==
  LET id == thisGetGuildID(guild)
  IN IF id.status # "ok" THEN [status |-> id.status, value |-> defVal]
     ELSE LET obj == IF has(settings, id.value) THEN get(settings, id.value) ELSE <<>>
          IN IF prop(obj, key) # None
             THEN [status |-> "ok", value |-> Val(prop(obj, key))]
             ELSE [status |-> "ok", value |-> defVal]

\* set(guild, key, val): the cached object takes the value, the row is written
\* with the text of the object, a global write is sent to the other shards
providerSet(P, shard, guild, key, val) ==
  LET id == thisGetGuildID(guild)
  IN IF id.status # "ok" THEN [P EXCEPT !.status = id.status]
     ELSE
       LET obj == IF has(P.settings, id.value) THEN get(P.settings, id.value) ELSE <<>>
           now == set(obj, key, Some(val))
           P1 == [P EXCEPT !.settings = set(@, id.value, now),
                           !.db = insertOrReplace(@, IF id.value # global THEN id.value
                                                     ELSE <<"0">>, JSONstringify(now)),
                           !.value = Some(val)]
       IN IF id.value = global THEN updateOtherShards(P1, shard, key, Some(val)) ELSE P1

\* remove(guild, key)
providerRemove(P, shard, guild, key) ==
  LET id == thisGetGuildID(guild)
  IN IF id.status # "ok" THEN [P EXCEPT !.status = id.status]
     ELSE
       LET obj == IF has(P.settings, id.value) THEN get(P.settings, id.value) ELSE <<>>
           now == set(obj, key, None)
           P1 == [P EXCEPT !.settings = set(@, id.value, now),
                           !.db = insertOrReplace(@, IF id.value # global THEN id.value
                                                     ELSE <<"0">>, JSONstringify(now)),
                           !.value = prop(obj, key)]
       IN IF ~has(P.settings, id.value) \/ prop(obj, key) = None THEN P
          ELSE IF id.value = global THEN updateOtherShards(P1, shard, key, None)
          ELSE P1

\* clear(guild)
providerClear(P, guild) ==
  LET id == thisGetGuildID(guild)
  IN IF id.status # "ok" THEN [P EXCEPT !.status = id.status]
     ELSE IF ~has(P.settings, id.value) THEN P
     ELSE [P EXCEPT !.settings = SelectSeq(@, LAMBDA e : e.k # id.value),
                    !.db = deleteRow(@, IF id.value # global THEN id.value ELSE <<"0">>)]

\* ---------------------------------------------------------------- guard chain
\* The guild's own flags (guild.isGroupEnabled, guild.isCommandEnabled,
\* guild.setCommandEnabled): enabled unless disabled in the guild
isGroupEnabled(gid) == [kind |-> "group", id |-> gid] \notin guildDisabled
isCommandEnabled(c) == [kind |-> "command", id |-> Info(c).name] \notin guildDisabled

\* hasPermission(message, ownerOverride = true)
hasPermission(c, message) ==
  LET info == Info(c)
      own == isOwner(message.author)
      missing == IF info.userPermissions = None THEN {}
                 ELSE Val(info.userPermissions) \ message.perms
  IN
  IF ~info.ownerOnly /\ info.userPermissions = None THEN Ret("true")
  ELSE IF own.status # "ok" THEN own
  ELSE IF own.value = "true" THEN Ret("true")
  ELSE IF info.ownerOnly THEN Ret("The command can only be used by the bot owner.")
  ELSE IF message.channelType = "text" /\ info.userPermissions # None /\ missing # {}
       THEN Ret("The command requires you to have the permissions")
  ELSE Ret("true")

\* this.group._globalEnabled: undefined on a group id (a string) and on a group
\* object without the flag
groupGlobalEnabled(c) ==
  IF groupOf(c) = None THEN "undefined"
  ELSE IF Val(groupOf(c))._globalEnabled = None THEN "undefined"
  ELSE Bool(Val(Val(groupOf(c))._globalEnabled))

\* isEnabledIn without its first line, the guarded command's early return
isEnabledInUnguarded(c, guild, bypassGroup) ==
  IF guild = None
  THEN IF bypassGroup \/ truthy(groupGlobalEnabled(c))
       THEN Bool(cmd[c]._globalEnabled)
       ELSE groupGlobalEnabled(c)
  ELSE IF bypassGroup \/ isGroupEnabled(cmd[c].group.id)
       THEN Bool(isCommandEnabled(c))
       ELSE "false"

\* isEnabledIn(guild, bypassGroup)
isEnabledIn(c, guild, bypassGroup) ==
  IF Info(c).guarded THEN "true"
  ELSE IF guild = None
  THEN IF bypassGroup \/ truthy(groupGlobalEnabled(c))
       THEN Bool(cmd[c]._globalEnabled)
       ELSE groupGlobalEnabled(c)
  ELSE IF bypassGroup \/ isGroupEnabled(cmd[c].group.id)
       THEN Bool(isCommandEnabled(c))
       ELSE "false"

\* setEnabledIn(guild, enabled); guild.setCommandEnabled keeps the guild's flag
setEnabledIn(R, c, guild, enabled) ==
  IF Info(c).guarded THEN Throw(R, "Error", "The command is guarded.")
  ELSE IF guild = None
  THEN Emit([R EXCEPT !.cmd[c]._globalEnabled = enabled], "commandStatusChange")
  ELSE [R EXCEPT !.guildDisabled =
          IF enabled THEN @ \ {[kind |-> "command", id |-> Info(c).name]}
          ELSE @ \cup {[kind |-> "command", id |-> Info(c).name]}]

\* isUsable(message)
isUsable(c, message) ==
  LET perm == hasPermission(c, message)
      en == isEnabledIn(c, message.guild, FALSE)
  IN
  IF Info(c).guildOnly /\ message.guild = None THEN Ret("false")
  ELSE IF perm.status # "ok" THEN perm
  ELSE IF ~truthy(en) THEN Ret(en)
  ELSE Ret(Bool(perm.value = "true"))

\* message.reply(text) made by onBlock: one reply, its promise returned
Replied(c, reason, text) ==
  [status |-> "ok", value |-> "promise",
   replies |-> <<[reply |-> "block", reason |-> reason, command |-> c, text |-> text]>>]

\* onBlock with a reply in the default case of the switch
onBlockAlwaysReplies(c, reason, data) == Replied(c, reason, "blocked")

\* onBlock(message, reason, data): data is None (undefined) or an object with
\* the properties response, missing and remaining
onBlock(c, reason, data) ==
  CASE reason = "guildOnly" -> Replied(c, reason, "must be used in a server channel")
    [] reason = "nsfw" -> Replied(c, reason, "can only be used in NSFW channels")
    [] reason = "permission" ->
         IF data = None
         THEN [status |-> "TypeError", value |-> "undefined", replies |-> <<>>]
         ELSE IF Val(data).response # None /\ Val(Val(data).response) # ""
         THEN Replied(c, reason, Val(Val(data).response))
         ELSE Replied(c, reason, "You do not have permission to use the command")
    [] reason = "clientPermissions" ->
         IF data = None
         THEN [status |-> "TypeError", value |-> "undefined", replies |-> <<>>]
         ELSE IF Len(Val(data).missing) = 1
         THEN Replied(c, reason, "I need the permission for the command to work")
         ELSE Replied(c, reason, "I need the following permissions for the command to work")
    [] reason = "throttling" ->
         IF data = None
         THEN [status |-> "TypeError", value |-> "undefined", replies |-> <<>>]
         ELSE Replied(c, reason, "You may not use the command again for another seconds")
    [] OTHER -> [status |-> "ok", value |-> "null", replies |-> <<>>]

\* onError(err, message, args, fromPattern, result): one reply
onError(c) == <<[reply |-> "error", reason |-> "error", command |-> c]>>

\* ---------------------------------------------------------------- FrameDispatcher
\* What String.prototype and a Message have among the names the dispatcher uses
StringMethods == {"startsWith", "split", "slice", "toLowerCase"}
MessageProperties == {"author", "content", "guild", "mentions", "channel"}

startsWith(s, p) == Len(p) <= Len(s) /\ SubSeq(s, 1, Len(p)) = p
slice(s, n) == SubSeq(s, n + 1, Len(s))

RECURSIVE split(_)
split(s) ==
  IF \A i \in DOMAIN s : s[i] # " " THEN <<s>>
  ELSE LET i == CHOOSE j \in DOMAIN s : s[j] = " " /\ \A k \in 1..(j - 1) : s[k] # " "
       IN <<SubSeq(s, 1, i - 1)>> \o split(SubSeq(s, i + 1, Len(s)))

\* What a dispatch leaves behind: the handlers invoked, the replies the
\* dispatcher sent, and whether a handler's promise rejected with nobody waiting
Dispatched(status, error, value, invoked, rejected) ==
  [status |-> status, error |-> error, value |-> value, invoked |-> invoked,
   replies |-> <<>>, rejected |-> rejected]

DispatchThrows(kind, error) == Dispatched(kind, error, "undefined", <<>>, FALSE)

\* command.run(message, args): the handler returns, throws, or rejects later
run(c, args, outcome) ==
  Dispatched(IF outcome = "throws" THEN "HandlerError" ELSE "ok",
             IF outcome = "throws" THEN "thrown by the handler" ELSE "",
             "undefined", <<[command |-> c, fn |-> "run", args |-> args]>>,
             outcome = "rejects")

\* handleCommand(message, starttype, prefix = null)
handleCommand(message, starttype, prefix, outcome) ==
  IF starttype = 1 THEN
    IF message.kind # "message"
    THEN DispatchThrows("TypeError", "Cannot read properties of undefined (reading 'split')")
    ELSE IF prefix = None
    THEN DispatchThrows("TypeError", "Cannot read properties of null (reading 'length')")
    ELSE
      LET args == split(message.content)
          commandName == slice(args[1], Len(Val(prefix)))
          command == get(commands, toLowerCase(commandName))
      IN IF command = Null
         THEN DispatchThrows("TypeError", "Cannot read properties of undefined (reading 'run')")
         ELSE run(command, Tail(args), outcome)
  ELSE IF starttype = 2 THEN
    IF message.kind # "message"
    THEN DispatchThrows("TypeError", "Cannot read properties of undefined (reading 'split')")
    ELSE
      LET args == split(message.content)
      IN IF Len(args) < 2
         THEN DispatchThrows("TypeError", "Cannot read properties of undefined (reading 'toLowerCase')")
         ELSE
           LET command == get(commands, toLowerCase(args[2]))
           IN IF command = Null
              THEN DispatchThrows("TypeError", "Cannot read properties of undefined (reading 'run')")
              ELSE run(command, Tail(Tail(args)), outcome)
  ELSE IF starttype = 3 THEN
    IF message.kind # "interaction"
    THEN DispatchThrows("TypeError", "Cannot read properties of undefined (reading 'toLowerCase')")
    ELSE
      LET command == get(commands, toLowerCase(message.commandName))
      IN IF command = Null
         THEN DispatchThrows("TypeError", "Cannot read properties of undefined (reading 'runSlash')")
         ELSE DispatchThrows("ReferenceError", "interaction is not defined")
  ELSE Dispatched("ok", "", "undefined", <<>>, FALSE)

\* handleMessage that takes every message for a command by prefix
handleMessageUnchecked(message, outcome) ==
  handleCommand(message, 1, Some(options.prefix), outcome)

\* handleMessage(message)
handleMessage(message, outcome) ==
  IF message.bot THEN Dispatched("ok", "", "false", <<>>, FALSE)
  ELSE IF provider = Null
  THEN DispatchThrows("TypeError", "Cannot read properties of null (reading 'get')")
  ELSE
    LET blacklist == providerGet(global, "user-blacklist", <<>>)
        prefix == providerGet(Val(message.guild), "prefix", options.prefix)
    IN
    IF blacklist.status # "ok"
    THEN DispatchThrows(blacklist.status, "this.getGuildID is not a function")
    ELSE IF includes(blacklist.value, message.author)
    THEN Dispatched("ok", "", "false", <<>>, FALSE)
    ELSE IF message.guild = None
    THEN DispatchThrows("TypeError", "Cannot read properties of null (reading 'id')")
    ELSE IF prefix.status # "ok"
    THEN DispatchThrows(prefix.status, "this.getGuildID is not a function")
    ELSE IF "startswith" \notin StringMethods
    THEN DispatchThrows("TypeError", "message.content.startswith is not a function")
    ELSE IF startsWith(message.content, prefix.value)
    THEN handleCommand(message, 1, Some(prefix.value), outcome)
    ELSE IF "metnions" \notin MessageProperties
    THEN DispatchThrows("TypeError", "Cannot read properties of undefined (reading 'has')")
    ELSE IF BotId \in message.mentions
    THEN handleCommand(message, 2, None, outcome)
    ELSE Dispatched("ok", "", "undefined", <<>>, FALSE)

\* handleSlash(interaction)
handleSlash(interaction, outcome) ==
  IF interaction.isCommand
  THEN handleCommand(interaction, 3, None, outcome)
  ELSE Dispatched("ok", "", "undefined", <<>>, FALSE)

\* ---------------------------------------------------------------- inputs
\* registerGroup(id, name) is called with these
GroupInputs ==
  {[id |-> util, name |-> <<"U", "t", "i", "l", "i", "t", "y">>],
   [id |-> util, name |-> <<>>],
   [id |-> <<"U", "t", "i", "l">>, name |-> <<>>]}

\* A class is instantiated at most once; an instance is one made before
FormOf(c) == IF cmd[c].constructed THEN "instance" ELSE "class"

CommandInputs ==
  {[kind |-> "command", form |-> FormOf(c), c |-> c] : c \in CmdIds}
  \cup {[kind |-> "command", form |-> "other", c |-> "A"]}

\* The commands registerCommands is given lists of
BatchInputs == {[kind |-> "command", form |-> FormOf(c), c |-> c] : c \in {"A", "B", "D"}}

RECURSIVE seqsUpTo(_, _)
seqsUpTo(S, n) ==
  IF n = 0 THEN {<<>>}
  ELSE LET shorter == seqsUpTo(S, n - 1)
       IN shorter \cup {Append(q, x) : q \in shorter, x \in S}

\* The commands the host instantiates itself and calls setEnabledIn on
EnableTargets == {"A", "D", "M"}

Message(author, guild, content, mentions, perms) ==
  [kind |-> "message", author |-> author, bot |-> author = "b1", guild |-> guild,
   content |-> content, mentions |-> mentions,
   channelType |-> IF guild = None THEN "dm" ELSE "text", perms |-> perms,
   commandName |-> <<>>, isCommand |-> FALSE]

Interaction(author, commandName, isCommand) ==
  [kind |-> "interaction", author |-> author, bot |-> FALSE, guild |-> Some(Guild1),
   content |-> <<>>, mentions |-> {},
   channelType |-> "text", perms |-> {},
   commandName |-> commandName, isCommand |-> isCommand]

Messages ==
  {Message("u1", Some(Guild1), <<"!", "P", "I", "N", "G", " ", "x">>, {}, {}),
   Message("u1", None, <<"!", "p">>, {}, {}),
   Message("u1", Some(Guild1), <<"!", "z", "z">>, {}, {}),
   Message("u1", Some(Guild1), <<"@", " ">> \o ping, {BotId}, {}),
   Message("u1", Some(Guild1), ping, {}, {}),
   Message("b1", Some(Guild1), <<"!">> \o ping, {}, {})}

Interactions ==
  {Interaction("u1", ping, TRUE),
   Interaction("u1", ping, FALSE)}

\* What a handler does when it runs: an input where a handler runs
Outcomes == {"returns", "throws", "rejects"}
OutcomesOf(D) == IF D.invoked = <<>> THEN {"returns"} ELSE Outcomes

\* ---------------------------------------------------------------- actions
NoEvent == [kind |-> "none"]

Commit(R, op, input) ==
  /\ commands' = R.commands
  /\ groups' = R.groups
  /\ unknownCommand' = R.unknownCommand
  /\ types' = R.types
  /\ cmd' = R.cmd
  /\ emitted' = R.emitted
  /\ result' = [op |-> op, status |-> R.status, error |-> R.error,
                value |-> "undefined", invoked |-> <<>>, replies |-> <<>>,
                rejected |-> FALSE, event |-> input, outcome |-> "returns"]
  /\ guildDisabled' = R.guildDisabled
  /\ UNCHANGED <<options, provider, settings, db, broadcasts, runs, clock, timers>>

RegisterGroup ==
  \E g \in GroupInputs :
    Commit(registerGroup(Registry, g.id, g.name), "registerGroup",
           [kind |-> "group", id |-> g.id])

RegisterCommand ==
  \E in \in CommandInputs :
    Commit(registerCommand(Registry, in.form, in.c), "registerCommand", in)

RegisterCommands ==
  \E list \in seqsUpTo(BatchInputs, MaxBatch) :
    Commit(registerCommands(Registry, list), "registerCommands", NoEvent)

\* new Command(client): the constructor, validateInfo first
Construct ==
  \E c \in EnableTargets :
    /\ ~cmd[c].constructed
    /\ LET made == validateInfo(groups, Info(c))
       IN IF made = "ok"
          THEN Commit([Registry EXCEPT !.cmd[c] = NewCommand(c)], "new", NoEvent)
          ELSE Commit(Throw(Registry, errorKind(made), made), "new", NoEvent)

\* setEnabledIn(guild, enabled) on an instance, guild null or a guild
SetEnabledIn ==
  \E c \in EnableTargets, guild \in {None, Some(Guild1)}, enabled \in BOOLEAN :
    /\ cmd[c].constructed
    /\ Commit(setEnabledIn(Registry, c, guild, enabled), "setEnabledIn",
              [kind |-> "command", form |-> "instance", c |-> c])

\* Disabling or enabling a group globally: a group object with the flag takes
\* it, a FrameGroup has no such member
GroupSetEnabled ==
  \E i \in DOMAIN groups, enabled \in BOOLEAN :
    IF groups[i].v._globalEnabled = None
    THEN Commit(Throw(Registry, "TypeError", "group.setEnabledIn is not a function"),
                "group.setEnabledIn", NoEvent)
    ELSE Commit(Emit([Registry EXCEPT !.groups[i].v._globalEnabled = Some(enabled)],
                     "groupStatusChange"), "group.setEnabledIn", NoEvent)

\* registerType(type)
TypeInputs ==
  {[kind |-> "type", form |-> "type", t |-> t] : t \in TypeClasses}
  \cup {[kind |-> "type", form |-> "other", t |-> "E"]}

RegisterType ==
  \E in \in TypeInputs :
    Commit(registerType(Registry, in.form, in.t), "registerType", in)

\* The users throttle is called for: a sender and an owner
ThrottleUsers == Senders \cup {"o1"}

\* throttle(userID) on an instance
Throttle ==
  \E c \in EnableTargets, userID \in ThrottleUsers :
    /\ cmd[c].constructed
    /\ LET out == throttle(Registry, c, userID)
       IN /\ cmd' = out.R.cmd
          /\ emitted' = <<>>
          /\ result' = [op |-> "throttle", status |-> out.R.status, error |-> out.R.error,
                        value |-> out.value, invoked |-> <<>>, replies |-> <<>>,
                        rejected |-> FALSE,
                        event |-> [kind |-> "throttle", c |-> c, userID |-> userID],
                        outcome |-> "returns"]
          /\ timers' = out.timers
          /\ UNCHANGED <<commands, groups, unknownCommand, types, guildDisabled, options,
                         provider, settings, db, broadcasts, runs, clock>>

\* onBlock(message, reason, data) is called with these: the built-in reasons
\* with the data documented for each, and reasons of the host's own
BlockData(response, missing, remaining) ==
  Some([response |-> response, missing |-> missing, remaining |-> remaining])

BlockInputs ==
  {[reason |-> "guildOnly", data |-> None],
   [reason |-> "nsfw", data |-> None],
   [reason |-> "permission", data |-> BlockData(Some("Ask an admin."), <<>>, 0)],
   [reason |-> "permission", data |-> BlockData(None, <<>>, 0)],
   [reason |-> "clientPermissions", data |-> BlockData(None, <<"KICK_MEMBERS">>, 0)],
   [reason |-> "clientPermissions",
    data |-> BlockData(None, <<"KICK_MEMBERS", "BAN_MEMBERS">>, 0)],
   [reason |-> "throttling", data |-> BlockData(None, <<>>, 1)],
   [reason |-> "maintenance", data |-> None],
   [reason |-> "maintenance", data |-> BlockData(Some("Ask an admin."), <<>>, 0)]}

OnBlock ==
  \E c \in EnableTargets, in \in BlockInputs :
    /\ cmd[c].constructed
    /\ LET out == onBlock(c, in.reason, in.data)
       IN /\ emitted' = <<>>
          /\ result' = [op |-> "onBlock", status |-> out.status, error |-> "",
                        value |-> out.value, invoked |-> <<>>, replies |-> out.replies,
                        rejected |-> FALSE,
                        event |-> [kind |-> "block", c |-> c, reason |-> in.reason,
                                   data |-> in.data],
                        outcome |-> "returns"]
          /\ UNCHANGED <<commands, groups, unknownCommand, types, cmd, guildDisabled,
                         options, provider, settings, db, broadcasts, runs, clock, timers>>

\* unload() on an instance
Unload ==
  \E c \in EnableTargets :
    /\ cmd[c].constructed
    /\ Commit(unload(Registry, c), "unload",
              [kind |-> "command", form |-> "instance", c |-> c])

\* setProvider(provider), provider an SQLiteProvider: provider.init(this)
\* comes first
SetProvider ==
  /\ provider = Null
  /\ provider' = "SQLiteProvider"
  /\ settings' = init(Provider).settings
  /\ emitted' = Append(init(Provider).emitted, "providerChange")
  /\ result' = [op |-> "setProvider", status |-> "ok", error |-> "",
                value |-> "undefined", invoked |-> <<>>, replies |-> <<>>,
                rejected |-> FALSE, event |-> NoEvent, outcome |-> "returns"]
  /\ UNCHANGED <<commands, groups, unknownCommand, types, cmd, guildDisabled, options,
                 db, broadcasts, runs, clock, timers>>

\* login(token): when a provider is set, provider.init(this) is started again;
\* the calls on the provider throw before they touch the cache, so a call
\* between the awaits of init leaves what init loads as it is
Login ==
  /\ settings' = IF provider # Null THEN init(Provider).settings ELSE settings
  /\ emitted' = IF provider # Null THEN init(Provider).emitted ELSE <<>>
  /\ result' = [op |-> "login", status |-> "ok", error |-> "",
                value |-> "undefined", invoked |-> <<>>, replies |-> <<>>,
                rejected |-> FALSE, event |-> NoEvent, outcome |-> "returns"]
  /\ UNCHANGED <<commands, groups, unknownCommand, types, cmd, guildDisabled, options,
                 provider, db, broadcasts, runs, clock, timers>>

\* The calls on client.provider: scopes, keys with a value and a default each
Scopes == {global, <<"1">>}

Settings ==
  {[key |-> "prefix", val |-> <<"?">>, defVal |-> <<"!">>],
   [key |-> "user-blacklist", val |-> <<"u1">>, defVal |-> <<>>]}

\* How a call on the provider ends: what it leaves and what it returns, or
\* rejects with when the method is async
CommitProvider(P, op, input, async) ==
  /\ settings' = P.settings
  /\ db' = P.db
  /\ broadcasts' = P.broadcasts
  /\ emitted' = P.emitted
  /\ result' = [op |-> op, status |-> P.status, error |-> "",
                value |-> P.value, invoked |-> <<>>, replies |-> <<>>,
                rejected |-> async /\ P.status # "ok", event |-> input,
                outcome |-> "returns"]
  /\ UNCHANGED <<commands, groups, unknownCommand, types, cmd, guildDisabled, options,
                 provider, runs, clock, timers>>

ProviderGet ==
  \E guild \in Scopes, s \in Settings :
    /\ provider # Null
    /\ LET out == providerGet(guild, s.key, s.defVal)
       IN CommitProvider([Provider EXCEPT !.status = out.status, !.value = Some(out.value)],
                         "provider.get",
                         [kind |-> "setting", guild |-> guild, key |-> s.key,
                          val |-> s.defVal], FALSE)

ProviderSet ==
  \E guild \in Scopes, s \in Settings :
    /\ provider # Null
    /\ CommitProvider(providerSet(Provider, options.shard, guild, s.key, s.val),
                      "provider.set",
                      [kind |-> "setting", guild |-> guild, key |-> s.key, val |-> s.val],
                      TRUE)

ProviderRemove ==
  \E guild \in Scopes, s \in Settings :
    /\ provider # Null
    /\ CommitProvider(providerRemove(Provider, options.shard, guild, s.key),
                      "provider.remove",
                      [kind |-> "setting", guild |-> guild, key |-> s.key, val |-> <<>>],
                      TRUE)

ProviderClear ==
  \E guild \in Scopes :
    /\ provider # Null
    /\ CommitProvider(providerClear(Provider, guild), "provider.clear",
                      [kind |-> "setting", guild |-> guild, key |-> "", val |-> <<>>],
                      TRUE)

\* The handler runs of the commands that have a throttling policy are counted
\* per instant: an event arrives at the instant of the one before it, or later
counted(D, event, later) ==
  [p \in DOMAIN runs |->
     (IF later THEN 0 ELSE runs[p])
     + (IF \E i \in DOMAIN D.invoked : D.invoked[i].command = p[1] /\ event.author = p[2]
        THEN 1 ELSE 0)]

Dispatch(D, op, event, outcome) ==
  \E later \in (IF \A p \in DOMAIN runs : runs[p] = 0 THEN {FALSE} ELSE BOOLEAN) :
    /\ \A p \in DOMAIN runs : counted(D, event, later)[p] <= MaxRuns
    /\ runs' = counted(D, event, later)
    /\ emitted' = <<>>
    /\ result' = [op |-> op, status |-> D.status, error |-> D.error,
                  value |-> D.value, invoked |-> D.invoked, replies |-> D.replies,
                  rejected |-> D.rejected, event |-> event, outcome |-> outcome]
    /\ UNCHANGED <<commands, groups, unknownCommand, types, cmd, guildDisabled, options,
                   provider, settings, db, broadcasts, clock, timers>>

HandleMessage ==
  \E message \in Messages :
    \E outcome \in OutcomesOf(handleMessage(message, "returns")) :
      Dispatch(handleMessage(message, outcome), "handleMessage", message, outcome)

HandleSlash ==
  \E interaction \in Interactions :
    \E outcome \in OutcomesOf(handleSlash(interaction, "returns")) :
      Dispatch(handleSlash(interaction, outcome), "handleSlash", interaction, outcome)

\* handleCommand(message, 1, prefix) on a message that starts with the prefix
\* and handleCommand(message, 2) on one that mentions the bot: the calls
\* handleMessage makes
HandleCommand ==
  \E message \in Messages, starttype \in 1..2 :
    LET prefix == IF starttype = 1 THEN Some(options.prefix) ELSE None
    IN /\ ~message.bot
       /\ IF starttype = 1 THEN startsWith(message.content, options.prefix)
          ELSE BotId \in message.mentions
       /\ \E outcome \in OutcomesOf(handleCommand(message, starttype, prefix, "returns")) :
            Dispatch(handleCommand(message, starttype, prefix, outcome),
                     IF starttype = 1 THEN "handleCommand1" ELSE "handleCommand2",
                     message, outcome)

\* ---------------------------------------------------------------- specifications
ThrottledCmds == {c \in CmdIds : Info(c).throttling # None}

InitClient ==
  /\ commands = <<>>
  /\ unknownCommand = Null
  /\ types = <<>>
  /\ cmd = [c \in CmdIds |-> NoCommand]
  /\ guildDisabled = {}
  /\ options = [prefix |-> <<"!">>, owners |-> [isArray |-> TRUE, ids |-> {"o1"}],
                shard |-> TRUE]
  /\ provider = Null
  /\ settings = <<>>
  /\ broadcasts = <<>>
  /\ runs = [p \in ThrottledCmds \X Senders |-> 0]
  /\ clock = 0
  /\ timers = <<>>
  /\ emitted = <<>>
  /\ result = [op |-> "new", status |-> "ok", error |-> "",
               value |-> "undefined", invoked |-> <<>>, replies |-> <<>>,
               rejected |-> FALSE, event |-> NoEvent, outcome |-> "returns"]

\* The settings tables the database file may hold when the client starts
Malformed == [valid |-> FALSE, obj |-> <<>>]

Blacklisting ==
  <<[guild |-> <<"0">>,
     settings |-> JSONstringify(<<[k |-> "user-blacklist", v |-> Some(<<"u1">>)]>>)],
    [guild |-> <<"1">>, settings |-> Malformed]>>

Databases ==
  {Blacklisting,
   <<[guild |-> <<"0">>, settings |-> Malformed],
     [guild |-> <<"1">>, settings |-> JSONstringify(<<[k |-> "prefix", v |-> Some(<<"?">>)]>>)],
     [guild |-> <<"2">>, settings |-> Malformed]>>}

\* new FrameClient(options): an empty registry
Init ==
  /\ InitClient
  /\ groups = <<>>
  /\ db \in Databases

\* A client whose registry holds a group object that has the members the
\* registry and the commands read
InitGroups ==
  /\ InitClient
  /\ groups = <<[k |-> util, v |-> CommandGroup(util, <<"U", "t", "i", "l", "i", "t", "y">>)]>>
  /\ db = Blacklisting

\* The operations on the commands and the groups, and the dispatcher's
NextRegistry ==
  \/ RegisterGroup
  \/ RegisterCommand
  \/ RegisterCommands
  \/ Construct
  \/ SetEnabledIn
  \/ GroupSetEnabled
  \/ SetProvider
  \/ HandleMessage
  \/ HandleSlash
  \/ HandleCommand

\* Every operation: those above and the ones that leave the commands and the
\* groups as they are
Next ==
  \/ NextRegistry
  \/ RegisterType
  \/ Throttle
  \/ Unload
  \/ OnBlock
  \/ ProviderGet
  \/ ProviderSet
  \/ ProviderRemove
  \/ ProviderClear
  \/ Login

Spec == Init /\ [][Next]_vars

SpecGroups == InitGroups /\ [][NextRegistry]_vars

\* ---------------------------------------------------------------- properties
\* The name and the aliases of a command, and the registered commands
Names(c) == {Info(c).name} \cup {Info(c).aliases[i] : i \in DOMAIN Info(c).aliases}
Registered == values(commands)
DispatchOps == {"handleMessage", "handleSlash", "handleCommand1", "handleCommand2"}

\* The command token of a message in prefix mode, lower-cased
Token(message) == toLowerCase(slice(split(message.content)[1], Len(options.prefix)))

\* The registered commands a token addresses by name, and by alias
ByName(token) == {c \in Registered : Info(c).name = token}
ByAlias(token) == {c \in Registered : includes(Info(c).aliases, token)}

\* The last operation was a dispatch that ran the handler of c
Ran(c) == \E i \in DOMAIN result.invoked : result.invoked[i].command = c

\* C1: registerCommand of a command whose name or an alias equals the name or
\* an alias of a registered command fails with an Error and leaves the commands
\* map, the groups with their member lists, unknownCommand and the instances as
\* they were, and emits no commandRegister.
C1_Collides(c) == \E r \in Registered : Names(c) \cap Names(r) # {}

C3_Blocked(c, event) ==
  \/ Info(c).guildOnly /\ event.guild = None
  \/ Info(c).ownerOnly /\ event.author \notin options.owners.ids
  \/ ~truthy(isEnabledIn(c, event.guild, FALSE))

C5_Classifies ==
  (result.op = "handleMessage" /\ ~result.event.bot) =>
    LET message == result.event
        words == split(message.content)
        byPrefix == startsWith(message.content, options.prefix)
        byMention == ~byPrefix /\ BotId \in message.mentions /\ words[1] = <<"@">>
    IN IF byPrefix
       THEN \A c \in ByName(Token(message)) : Ran(c)
       ELSE IF byMention
       THEN Len(words) >= 2 => \A c \in ByName(toLowerCase(words[2])) : Ran(c)
       ELSE result.invoked = <<>> /\ result.status = "ok"

C7_UnknownToken ==
  (/\ result.op = "handleCommand1"
   /\ ByName(Token(result.event)) = {}
   /\ ByAlias(Token(result.event)) = {})
  => IF unknownCommand # Null
     THEN Ran(unknownCommand)
     ELSE result.invoked = <<>> /\ result.status = "ok"

C9_Enabled ==
  \A c \in CmdIds :
    (cmd[c].constructed /\ Info(c).guarded) =>
      \A guild \in {None, Some(Guild1)}, bypassGroup \in BOOLEAN :
        isEnabledIn(c, guild, bypassGroup) = "true"

C10_GroupFlag(c) ==
  LET group == get(groups, cmd[c].group.id)
  IN IF group._globalEnabled = None THEN TRUE ELSE Val(group._globalEnabled)

C10_GlobalEnabled ==
  \A c \in CmdIds :
    (cmd[c].constructed /\ ~Info(c).guarded) =>
      ((isEnabledIn(c, None, FALSE) = "true") <=> (C10_GroupFlag(c) /\ cmd[c]._globalEnabled))

\* C11: isUsable(message) of a command returns, and what it returns is true
\* exactly when the command is not guild-only or the message has a guild,
\* hasPermission(message) returns true, and isEnabledIn(message.guild) is true.
C11_IsUsable ==
  \A c \in CmdIds, message \in Messages :
    cmd[c].constructed =>
      LET out == isUsable(c, message)
          usable == /\ (~Info(c).guildOnly \/ message.guild # None)
                    /\ hasPermission(c, message) = Ret("true")
                    /\ isEnabledIn(c, message.guild, FALSE) = "true"
      IN out.status = "ok" /\ (out.value = "true" <=> usable) /\ (truthy(out.value) <=> usable)

\* C12: hasPermission(message) returns true for an owner; for a sender who is
\* no owner it returns the owner-only message for an owner-only command, the
\* missing-permissions message when the sender lacks one of userPermissions in
\* a guild text channel, and true otherwise.
C12_Expected(c, message) ==
  LET info == Info(c)
  IN IF message.author \in options.owners.ids THEN Ret("true")
     ELSE IF info.ownerOnly THEN Ret("The command can only be used by the bot owner.")
     ELSE IF /\ message.channelType = "text"
             /\ info.userPermissions # None
             /\ Val(info.userPermissions) \ message.perms # {}
          THEN Ret("The command requires you to have the permissions")
     ELSE Ret("true")

C12_HasPermission ==
  \A c \in CmdIds, message \in Messages :
    cmd[c].constructed => hasPermission(c, message) = C12_Expected(c, message)

C14_Members(id) ==
  IF ~has(groups, id) \/ get(groups, id).commands = None THEN <<>>
  ELSE Val(get(groups, id).commands)

C14_Refused(c) ==
  \/ validateInfo(groups, Info(c)) # "ok"
  \/ C1_Collides(c)
  \/ \E r \in values(C14_Members(Info(c).group)) : Info(r).memberName = Info(c).memberName
  \/ Info(c).unknown /\ unknownCommand # Null

C14_RegisterInserts ==
  /\ (result.op = "registerCommand" /\ result.event.form # "other") =>
       LET c == result.event.c
       IN IF result.status = "ok"
          THEN /\ get(commands, Info(c).name) = c
               /\ get(C14_Members(Info(c).group), Info(c).name) = c
               /\ Cardinality({i \in DOMAIN emitted : emitted[i] = "commandRegister"}) = 1
          ELSE C14_Refused(c)
  /\ \A c \in CmdIds :
       (get(commands, Info(c).name) = c) <=> (get(C14_Members(Info(c).group), Info(c).name) = c)
  /\ \A i \in DOMAIN groups :
       \A c \in values(C14_Members(groups[i].k)), d \in values(C14_Members(groups[i].k)) :
         c # d => Info(c).memberName # Info(d).memberName

\* C15: at most one registered command is flagged unknown; unknownCommand is
\* null when there is none and is that command otherwise; registerCommand of
\* an unknown-flagged command while unknownCommand is set throws an Error and
\* leaves unknownCommand and the commands map as they were.
C15_OneUnknown ==
  LET flagged == {c \in Registered : Info(c).unknown}
  IN /\ Cardinality(flagged) <= 1
     /\ (unknownCommand = Null) <=> (flagged = {})
     /\ unknownCommand # Null => flagged = {unknownCommand}

C16_DuplicateTypeRejected ==
  [][/\ \A i \in DOMAIN types : i \in DOMAIN types' /\ types'[i] = types[i]
     /\ (/\ result'.op = "registerType"
         /\ result'.event.form # "other"
         /\ has(types, typeId(result'.event.t)))
        => /\ result'.status = "Error"
           /\ types' = types
           /\ \A i \in DOMAIN emitted' : emitted'[i] # "typeRegister"]_vars

\* E2, whose id is that of the registered E, was refused
C16_Witness ==
  /\ result.op = "registerType"
  /\ result.event.t = "E2"
  /\ result.status = "Error"
  /\ get(types, "default-emoji") = "E"

\* C17: registerGroup with an id that is registered does not throw, emits warn
\* and no groupRegister, and leaves the groups map, hence the group object
\* under that id, as it was.
C17_DuplicateGroupSkipped ==
  [][(result'.op = "registerGroup" /\ has(groups, result'.event.id))
     => /\ result'.status = "ok"
        /\ emitted' = <<"warn">>
        /\ groups' = groups
        /\ commands' = commands]_vars

\* util registered with the name Utility, then registered again
C17_Witness ==
  /\ result.op = "registerGroup"
  /\ result.event.id = util
  /\ emitted = <<"warn">>
  /\ get(groups, util).name = <<"U", "t", "i", "l", "i", "t", "y">>

\* C18: when the item at position k of the list is the first that fails to
\* register, registerCommands(list) fails with that item's error, the items
\* before k are registered, and the registry is what it was before item k.
\* C18_Below(done, before) states it for every list that begins with done,
\* whose items registered one by one and left the registry before.
RECURSIVE C18_Below(_, _)
C18_Below(done, before) ==
  \A x \in BatchInputs :
    LET item == registerCommand(before, x.form, x.c)
        k == Len(done) + 1
    IN IF item.status = "ok"
       THEN k < MaxBatch => C18_Below(Append(done, x), item)
       ELSE
         \A rest \in seqsUpTo(BatchInputs, MaxBatch - k) :
           LET after == registerCommands(Registry, Append(done, x) \o rest)
           IN /\ after.status = item.status
              /\ after.status # "ok"
              /\ \A j \in 1..(k - 1) :
                   /\ get(after.commands, Info(done[j].c).name) = done[j].c
                   /\ after.cmd[done[j].c].constructed
              /\ after.commands = before.commands
              /\ after.groups = before.groups
              /\ after.cmd = before.cmd
              /\ after.unknownCommand = before.unknownCommand

C19_WellFormed(info) ==
  /\ \A i \in DOMAIN info.name : info.name[i] \notin {"P", "I", "N", "G", "D", "U", "M"}
  /\ info.group # <<>>
  /\ \A i \in DOMAIN info.group : info.group[i] \notin {"P", "I", "N", "G", "D", "U", "M"}
  /\ info.clientPermissions # None => Val(info.clientPermissions) \subseteq permissions
  /\ info.userPermissions # None => Val(info.userPermissions) \subseteq permissions
  /\ info.throttling # None =>
       Val(info.throttling).usages >= 1 /\ Val(info.throttling).duration >= 1

\* Infos with one defect each
C19_Malformed ==
  LET good == NoInfo @@ [name |-> <<"x">>, group |-> util, memberName |-> "x"]
  IN {[good EXCEPT !.name = <<"P", "i", "n", "g">>],
      [good EXCEPT !.group = <<>>],
      [good EXCEPT !.group = <<"U", "t", "i", "l">>],
      [good EXCEPT !.clientPermissions = Some({"FLY"})],
      [good EXCEPT !.userPermissions = Some({"KICK_MEMBERS", "FLY"})],
      [good EXCEPT !.throttling = Some([usages |-> 0, duration |-> 2])],
      [good EXCEPT !.throttling = Some([usages |-> 2, duration |-> 0])],
      [good EXCEPT !.throttling = Some([usages |-> 1, duration |-> -1])]}

C20_ThrottleNoOp ==
  /\ (/\ result.op = "throttle"
      /\ \/ Info(result.event.c).throttling = None
         \/ result.event.userID \in options.owners.ids)
     => /\ result.status = "ok"
        /\ result.value = "null"
        /\ ~has(cmd[result.event.c]._throttles, result.event.userID)
  /\ \A c \in CmdIds :
       /\ Info(c).throttling = None => cmd[c]._throttles = <<>>
       /\ \A o \in options.owners.ids : ~has(cmd[c]._throttles, o)

\* C21: after unload() of a command the command is unloaded and none of its
\* throttle objects holds a pending timeout.
C21_TimersCancelled ==
  result.op = "unload" =>
    /\ result.status = "ok"
    /\ ~has(commands, Info(result.event.c).name)
    /\ \A i \in DOMAIN cmd[result.event.c]._throttles :
         ~cmd[result.event.c]._throttles[i].v.timeout

C22_BuiltIn == {"guildOnly", "nsfw", "permission", "clientPermissions", "throttling"}

C24_Blacklist ==
  IF has(settings, global) /\ prop(get(settings, global), "user-blacklist") # None
  THEN Val(prop(get(settings, global), "user-blacklist"))
  ELSE <<>>

C26_Default(key) == (CHOOSE s \in Settings : s.key = key).defVal

\* C26: after set(scope, key, v), get(scope, key, d) returns v; after
\* remove(scope, key), get(scope, key, d) returns d; after clear(scope),
\* get(scope, k, d) returns d for every key k; and get itself returns.
C26_RoundTrip ==
  LET e == result.event
  IN /\ result.op = "provider.get" => result.status = "ok"
     /\ result.op = "provider.set" =>
          /\ result.status = "ok"
          /\ providerGet(e.guild, e.key, C26_Default(e.key)) = Ret(e.val)
     /\ result.op = "provider.remove" =>
          /\ result.status = "ok"
          /\ providerGet(e.guild, e.key, C26_Default(e.key)) = Ret(C26_Default(e.key))
     /\ result.op = "provider.clear" =>
          /\ result.status = "ok"
          /\ \A s \in Settings : providerGet(e.guild, s.key, s.defVal) = Ret(s.defVal)

\* The rows of the table that belong to a scope
C27_Rows(guild) ==
  {i \in DOMAIN db : db[i].guild = (IF guild = global THEN <<"0">> ELSE guild)}

\* C27: after set(scope, key, v) the table holds one row for the scope, whose
\* text holds v under key, and a second set(scope, key, v) leaves the cache and
\* the table as they are; there is never more than one row for a scope.
C27_SetIdempotent ==
  /\ \A guild \in Scopes : Cardinality(C27_Rows(guild)) <= 1
  /\ result.op = "provider.set" =>
       LET e == result.event
           again == providerSet(Provider, options.shard, e.guild, e.key, e.val)
       IN /\ result.status = "ok"
          /\ \E i \in C27_Rows(e.guild) :
               /\ JSONparse(db[i].settings).status = "ok"
               /\ prop(JSONparse(db[i].settings).value, e.key) = Some(e.val)
          /\ again.settings = settings
          /\ again.db = db

\* C28: once a set, remove or clear call on a scope has completed it has not
\* rejected, the cache holds what it wrote, and the row of the scope is the
\* text of the cached settings of the scope (no row when there are none).
C28_LastWriterWins ==
  result.op \in {"provider.set", "provider.remove", "provider.clear"} =>
    LET e == result.event
    IN /\ ~result.rejected
       /\ result.op = "provider.set" =>
            has(settings, e.guild) /\ prop(get(settings, e.guild), e.key) = Some(e.val)
       /\ result.op = "provider.remove" =>
            ~has(settings, e.guild) \/ prop(get(settings, e.guild), e.key) = None
       /\ result.op = "provider.clear" => ~has(settings, e.guild)
       /\ IF has(settings, e.guild)
          THEN \E i \in C27_Rows(e.guild) :
                 db[i].settings = JSONstringify(get(settings, e.guild))
          ELSE C27_Rows(e.guild) = {}

\* C29: on a client that runs as a shard, a set on the global scope has sent
\* the key and the value to the other shards when it ends, and a clear of the
\* global scope has sent something too.
C29_GlobalBroadcast ==
  (/\ result.op \in {"provider.set", "provider.clear"}
   /\ result.event.guild = global
   /\ options.shard)
  => /\ result.status = "ok"
     /\ broadcasts # <<>>
     /\ result.op = "provider.set" =>
          broadcasts[Len(broadcasts)] = [key |-> result.event.key,
                                        val |-> Some(result.event.val)]

\* The scope a row is cached under
C30_Scope(row) == IF row.guild = <<"0">> THEN global ELSE row.guild

\* C30: after setProvider (init) the cache holds exactly the rows of the table
\* whose text is valid, one warn was emitted per row whose text is not, and
\* get returns the default for the scope of such a row.
C30_InitSkipsMalformed ==
  result.op = "setProvider" =>
    /\ result.status = "ok"
    /\ \A i \in DOMAIN db :
         IF db[i].settings.valid
         THEN get(settings, C30_Scope(db[i])) = db[i].settings.obj
         ELSE ~has(settings, C30_Scope(db[i]))
    /\ \A j \in DOMAIN settings : \E i \in DOMAIN db : C30_Scope(db[i]) = settings[j].k
    /\ Cardinality({j \in DOMAIN emitted : emitted[j] = "warn"})
         = Cardinality({i \in DOMAIN db : ~db[i].settings.valid})
    /\ \A i \in DOMAIN db :
         ~db[i].settings.valid =>
           \A s \in Settings :
             providerGet(C30_Scope(db[i]), s.key, s.defVal) = Ret(s.defVal)


\* ---------------------------------------------------------------------------
\* Argument types and the argument collector.  command.js requires
\* ./collector and the registry requires ./types/integer and ./types/string;
\* neither file is among the sources, so the collector and these two types
\* follow sections 3 and 4.3 of the specification.  types/default-emoji.js is
\* among the sources and is translated from it.
\* ---------------------------------------------------------------------------

\* Most tokens of one raw argument string, and most replies to prompts
MaxTokens == 2
MaxReplies == 2

Digits == <<"0", "1", "2", "3", "4", "5", "6", "7", "8", "9">>

isDigits(s) == s # <<>> /\ \A i \in DOMAIN s : \E d \in DOMAIN Digits : Digits[d] = s[i]

RECURSIVE parseDigits(_)
parseDigits(s) ==
  IF s = <<>> THEN 0
  ELSE 10 * parseDigits(SubSeq(s, 1, Len(s) - 1))
         + (CHOOSE d \in DOMAIN Digits : Digits[d] = s[Len(s)]) - 1

\* A parsed value: a number [n |-> ..] or a string [s |-> ..]
Num(n) == [n |-> n]
Str(s) == [s |-> s]
isNum(v) == DOMAIN v = {"n"}

\* The validate of a type: the integer type accepts the decimal integers, the
\* string type every token
typeValidate(type, val) ==
  IF type = "integer"
  THEN \/ isDigits(val)
       \/ Len(val) > 1 /\ val[1] = "-" /\ isDigits(Tail(val))
  ELSE TRUE

\* The parse of a type: the integer type gives the number, the string type
\* gives the token back
typeParse(type, val) ==
  IF type # "integer" THEN Str(val)
  ELSE IF val[1] = "-" THEN Num(0 - parseDigits(Tail(val)))
  ELSE Num(parseDigits(val))

\* The outcome of one value for one definition
Accepted(v) == [ok |-> TRUE, reason |-> "none", value |-> Some(v)]
Rejection(reason) == [ok |-> FALSE, reason |-> reason, value |-> None]

\* A variant that checks the bounds before the type: what is no integer counts
\* as out of range
validateArgBoundsFirst(arg, val) ==
  IF (arg.min # None \/ arg.max # None) /\ ~typeValidate(arg.type, val)
  THEN Rejection("range")
  ELSE IF ~typeValidate(arg.type, val) THEN Rejection("type")
  ELSE LET v == typeParse(arg.type, val)
       IN IF arg.oneOf # None /\ ~includes(Val(arg.oneOf), v) THEN Rejection("oneOf")
          ELSE IF isNum(v) /\ arg.min # None /\ v.n < Val(arg.min) THEN Rejection("range")
          ELSE IF isNum(v) /\ arg.max # None /\ v.n > Val(arg.max) THEN Rejection("range")
          ELSE Accepted(v)

\* One token against one definition: the type's validate, then its parse, then
\* oneOf and the numeric bounds on what was parsed
validateArg(arg, val) ==
  IF ~typeValidate(arg.type, val) THEN Rejection("type")
  ELSE LET v == typeParse(arg.type, val)
       IN IF arg.oneOf # None /\ ~includes(Val(arg.oneOf), v) THEN Rejection("oneOf")
          ELSE IF isNum(v) /\ arg.min # None /\ v.n < Val(arg.min) THEN Rejection("range")
          ELSE IF isNum(v) /\ arg.max # None /\ v.n > Val(arg.max) THEN Rejection("range")
          ELSE Accepted(v)

\* The reply that cancels a conversational collection
cancel == <<"c", "a", "n", "c", "e", "l">>

\* What obtaining one definition's value leaves: the value or the reason of
\* the failure, the replies not yet read, the prompts sent and the number of
\* times the type's validate ran
Obtained(out, replies, prompts, validated) ==
  [ok |-> out.ok, prompts |-> prompts, reason |-> out.reason, replies |-> replies,
   validated |-> validated, value |-> out.value]

\* A variant that puts the default through the type like a token
RECURSIVE obtainValidatingDefault(_, _, _, _, _, _)
obtainValidatingDefault(arg, tok, replies, prompts, validated, mode) ==
  IF tok = None /\ arg.default # None
  THEN Obtained(Accepted(Val(arg.default)), replies, prompts, validated + 1)
  ELSE
    LET out == IF tok = None THEN Rejection("absent") ELSE validateArg(arg, Val(tok))
        ran == IF tok = None THEN validated ELSE validated + 1
    IN IF out.ok \/ ~mode.conversational THEN Obtained(out, replies, prompts, ran)
       ELSE IF prompts >= mode.promptLimit
       THEN Obtained(Rejection("retries"), replies, prompts, ran)
       ELSE IF replies = <<>> \/ Head(replies) = cancel
       THEN Obtained(Rejection("cancelled"), replies, prompts + 1, ran)
       ELSE obtainValidatingDefault(arg, Some(Head(replies)), Tail(replies), prompts + 1, ran, mode)

\* The value of one definition from its token, which may be absent: the
\* default when the token is absent and there is one; otherwise the token is
\* validated and parsed, and in conversational mode a rejected or absent value
\* is asked for again until the prompt limit is reached or the user cancels
RECURSIVE obtain(_, _, _, _, _, _)
obtain(arg, tok, replies, prompts, validated, mode) ==
  IF tok = None /\ arg.default # None
  THEN Obtained(Accepted(Val(arg.default)), replies, prompts, validated)
  ELSE
    LET out == IF tok = None THEN Rejection("absent") ELSE validateArg(arg, Val(tok))
        ran == IF tok = None THEN validated ELSE validated + 1
    IN IF out.ok \/ ~mode.conversational THEN Obtained(out, replies, prompts, ran)
       ELSE IF prompts >= mode.promptLimit
       THEN Obtained(Rejection("retries"), replies, prompts, ran)
       ELSE IF replies = <<>> \/ Head(replies) = cancel
       THEN Obtained(Rejection("cancelled"), replies, prompts + 1, ran)
       ELSE obtain(arg, Some(Head(replies)), Tail(replies), prompts + 1, ran, mode)

\* What a collection leaves: the argument object so far, the definition that
\* failed and why, and for every definition processed its key, the prompts
\* sent for it and the runs of its type's validate
Collected(object, failed, reason, processed) ==
  [failed |-> failed, ok |-> failed = None, processed |-> processed,
   reason |-> reason, values |-> object]

Processed(arg, got) ==
  [key |-> arg.key, prompts |-> got.prompts, validated |-> got.validated]

\* A variant that goes on to the next definition after a failure
RECURSIVE collectPastFailures(_, _, _, _, _, _)
collectPastFailures(args, tokens, replies, mode, object, processed) ==
  IF args = <<>> THEN Collected(object, None, "none", processed)
  ELSE
    LET arg == Head(args)
        tok == IF tokens = <<>> THEN None ELSE Some(Head(tokens))
        rest == IF tokens = <<>> THEN <<>> ELSE Tail(tokens)
        got == obtain(arg, tok, replies, 0, 0, mode)
    IN collectPastFailures(Tail(args), rest, got.replies, mode,
                           IF got.ok THEN set(object, arg.key, Val(got.value)) ELSE object,
                           Append(processed, Processed(arg, got)))

\* The collector over the definitions in their order, each taking the next
\* token; it stops at the first definition that fails
RECURSIVE collect(_, _, _, _, _, _)
collect(args, tokens, replies, mode, object, processed) ==
  IF args = <<>> THEN Collected(object, None, "none", processed)
  ELSE
    LET arg == Head(args)
        tok == IF tokens = <<>> THEN None ELSE Some(Head(tokens))
        rest == IF tokens = <<>> THEN <<>> ELSE Tail(tokens)
        got == obtain(arg, tok, replies, 0, 0, mode)
    IN IF ~got.ok
       THEN Collected(object, Some(arg.key), got.reason,
                      Append(processed, Processed(arg, got)))
       ELSE collect(Tail(args), rest, got.replies, mode,
                    set(object, arg.key, Val(got.value)),
                    Append(processed, Processed(arg, got)))

\* Argument definitions: the integer between 1 and 10 of the specification's
\* example, an integer with a default, a string with and without a default
NoArg ==
  [default |-> None, key |-> "", max |-> None, min |-> None, oneOf |-> None,
   type |-> "string"]

ArgN == [NoArg EXCEPT !.key = "n", !.type = "integer", !.min = Some(1), !.max = Some(10)]

ArgM == [NoArg EXCEPT !.key = "m", !.type = "integer", !.default = Some(Num(7)),
                      !.min = Some(0)]

ArgT == [NoArg EXCEPT !.key = "t"]

ArgD == [NoArg EXCEPT !.key = "d", !.default = Some(Str(<<"x">>)),
                      !.oneOf = Some(<<Str(<<"x">>), Str(<<"5">>)>>)]

\* The format the constructor derives from the collector's definitions when the
\* info gives none: [label] for a definition whose default is not null, <label>
\* for the others
format(args) ==
  [i \in DOMAIN args |->
     [label |-> args[i].key,
      wrapL |-> IF args[i].default # None THEN "[" ELSE "<",
      wrapR |-> IF args[i].default # None THEN "]" ELSE ">"]]

\* ------------------------------------------------------- types/default-emoji
\* Code points that stand for emoji: a flag of two code points, a face and a
\* heart
EmojiFlag == <<"U+1F1E8", "U+1F1FF">>
EmojiFace == <<"U+1F600">>
EmojiHeart == <<"U+2764">>

Emoji == {EmojiFlag, EmojiFace, EmojiHeart}

\* emojiRegex() of the emoji-regex package: a regular expression with the g
\* flag whose source is an alternation; every emoji is matched by one of the
\* alternatives.  An alternative is given by the strings it matches.
emojiRegex == [flags |-> <<"g">>, source |-> <<{EmojiFlag}, {EmojiFace}, {EmojiHeart}>>]

\* `${re}` of a regular expression is RegExp.prototype.toString, the text
\* "/" + source + "/" + flags: in the alternation the "/" goes with the first
\* alternative and "/" + flags with the last
toString(re) ==
  [i \in DOMAIN re.source |->
     [matches |-> re.source[i],
      prefix |-> IF i = 1 THEN <<"/">> ELSE <<>>,
      suffix |-> IF i = Len(re.source) THEN <<"/">> \o re.flags ELSE <<>>]]

\* new RegExp(`^(?:${pattern})$`).test(value)
test(pattern, value) ==
  \E i \in DOMAIN pattern :
    \E w \in pattern[i].matches : value = pattern[i].prefix \o w \o pattern[i].suffix

\* What validate returns: true, false or the message that lists the options
Options(oneOf) == [options |-> oneOf, result |-> "message"]
Plain(b) == [options |-> <<>>, result |-> Bool(b)]

\* DefaultEmojiArgumentType.validate(value, msg, arg)
defaultEmojiValidate(value, arg) ==
  IF ~test(toString(emojiRegex), value) THEN Plain(FALSE)
  ELSE IF arg.oneOf # None /\ ~includes(Val(arg.oneOf), value)
  THEN Options(Val(arg.oneOf))
  ELSE Plain(TRUE)

\* ----------------------------------------------------------------- actions
\* The calls: one collection (a schema, the tokens of the raw argument string,
\* the mode and the replies the user gives to prompts) or one validate of the
\* default-emoji type
Inputs ==
  {[args |-> args, kind |-> "collect", mode |-> call[1], replies |-> call[2],
    tokens |-> tokens] :
     \* the definitions of the command
     args \in {<<ArgN>>, <<ArgN, ArgD>>, <<ArgT, ArgM>>, <<ArgM, ArgN>>, <<ArgD, ArgT>>},
     \* raw tokens: integers inside and outside [1, 10], and what is no integer
     tokens \in seqsUpTo({<<"5">>, <<"1", "1">>, <<"-", "3">>, <<"a", "b", "c">>},
                         MaxTokens),
     \* argsPromptLimit is a number that is at least 0; replies are given to
     \* the prompts of a conversational collection only
     call \in {<<[conversational |-> FALSE, promptLimit |-> 0], <<>>>>}
               \cup ({[conversational |-> TRUE, promptLimit |-> l] : l \in 0..MaxReplies}
                       \X seqsUpTo({<<"5">>, <<"a", "b", "c">>, cancel}, MaxReplies))}
  \cup
  {[arg |-> [NoArg EXCEPT !.key = "e", !.type = "default-emoji", !.oneOf = oneOf],
    kind |-> "validate", value |-> value] :
     \* the emoji, text, two emoji, and the emoji between the delimiters of a
     \* regular expression literal
     value \in Emoji \cup {<<"a">>, <<>>, EmojiFace \o EmojiFace, <<"/">> \o EmojiFlag,
                           EmojiHeart \o <<"/", "g">>,
                           <<"/">> \o EmojiFace \o <<"/", "g">>},
     oneOf \in {None, Some(<<EmojiFace>>), Some(<<EmojiFace, EmojiHeart>>),
                Some(<<<<"a">>, EmojiFlag>>)}}

\* The collector and the types keep nothing between two calls: a behaviour
\* starts with the call that is about to be made on a new client and is that
\* one call
InitCollector ==
  /\ commands = <<>>
  /\ groups = <<>>
  /\ unknownCommand = Null
  /\ types = <<>>
  /\ cmd = [c \in CmdIds |-> NoCommand]
  /\ guildDisabled = {}
  /\ options = [prefix |-> <<"!">>, owners |-> [isArray |-> TRUE, ids |-> {"o1"}],
                shard |-> TRUE]
  /\ provider = Null
  /\ settings = <<>>
  /\ db = Blacklisting
  /\ broadcasts = <<>>
  /\ runs = [p \in ThrottledCmds \X Senders |-> 0]
  /\ clock = 0
  /\ timers = <<>>
  /\ emitted = <<>>
  /\ \E input \in Inputs :
       result = [op |-> "new", status |-> "ok", error |-> "",
                 value |-> None, invoked |-> <<>>, replies |-> <<>>,
                 rejected |-> FALSE, event |-> input, outcome |-> "returns"]

Applied(op, value) ==
  /\ result.op = "new"
  /\ result.event.kind = op
  /\ result' = [result EXCEPT !.op = op, !.value = value]
  /\ emitted' = <<>>
  /\ UNCHANGED <<commands, groups, unknownCommand, types, cmd, guildDisabled, options,
                 provider, settings, db, broadcasts, runs, clock, timers>>

\* One collection
Collect ==
  Applied("collect",
          collect(result.event.args, result.event.tokens, result.event.replies,
                  result.event.mode, <<>>, <<>>))

\* validate(value, msg, arg) of the default-emoji type
ValidateEmoji ==
  Applied("validate", defaultEmojiValidate(result.event.value, result.event.arg))

NextCollector ==
  \/ Collect
  \/ ValidateEmoji

\* The collector and the types, applied to the inputs above
SpecCollector == InitCollector /\ [][NextCollector]_vars

\* ------------------------------------------------ messages that mention the bot
\* Messages without the prefix that mention the bot: as the first word, after
\* the name of a command, and in a sentence that names no command
MentionMessages ==
  {Message("u1", Some(Guild1), <<"@", " ">> \o ping, {BotId}, {}),
   Message("u1", Some(Guild1), <<"x", " ">> \o ping \o <<" ", "@">>, {BotId}, {}),
   Message("u1", Some(Guild1), <<"h", "i", " ", "@">>, {BotId}, {})}

\* handleMessage(message) for a message that mentions the bot
HandleMention ==
  \E message \in MentionMessages :
    \E outcome \in OutcomesOf(handleMessage(message, "returns")) :
      Dispatch(handleMessage(message, outcome), "handleMessage", message, outcome)

\* handleCommand(message, 2), the call of line 28 for a message that mentions
\* the bot
HandleCommandMention ==
  \E message \in MentionMessages :
    /\ BotId \in message.mentions
    /\ \E outcome \in OutcomesOf(handleCommand(message, 2, None, "returns")) :
         Dispatch(handleCommand(message, 2, None, outcome), "handleCommand2", message,
                  outcome)

NextMention ==
  \/ Construct
  \/ RegisterCommand
  \/ SetProvider
  \/ HandleMention
  \/ HandleCommandMention

\* The dispatcher on messages that mention the bot, the registry holding a
\* group object that commands can be registered in
SpecMention == InitGroups /\ [][NextMention]_vars

\* ------------------------------------------------------- throttle objects in time
\* A timeout that is due fires: the callback of throttle,
\* this._throttles.delete(userID)
TimeoutFires ==
  \E i \in DOMAIN timers :
    /\ timers[i].due <= clock
    /\ timers' = [j \in 1..(Len(timers) - 1) |-> IF j < i THEN timers[j] ELSE timers[j + 1]]
    /\ cmd' = [cmd EXCEPT ![timers[i].command]._throttles =
                            SelectSeq(@, LAMBDA e : e.k # timers[i].userID)]
    /\ emitted' = <<>>
    /\ result' = [op |-> "timeout", status |-> "ok", error |-> "",
                  value |-> "undefined", invoked |-> <<>>, replies |-> <<>>,
                  rejected |-> FALSE,
                  event |-> [kind |-> "timeout", c |-> timers[i].command,
                             userID |-> timers[i].userID, due |-> timers[i].due],
                  outcome |-> "returns"]
    /\ UNCHANGED <<commands, groups, unknownCommand, types, guildDisabled, options,
                   provider, settings, db, broadcasts, runs, clock>>

\* A second passes; the timeouts that are due fire before it does
Tick ==
  /\ clock < MaxTime
  /\ \A i \in DOMAIN timers : timers[i].due > clock
  /\ clock' = clock + 1
  /\ emitted' = <<>>
  /\ result' = [op |-> "tick", status |-> "ok", error |-> "",
                value |-> "undefined", invoked |-> <<>>, replies |-> <<>>,
                rejected |-> FALSE, event |-> NoEvent, outcome |-> "returns"]
  /\ UNCHANGED <<commands, groups, unknownCommand, types, cmd, guildDisabled, options,
                 provider, settings, db, broadcasts, runs, timers>>

\* new FrameClient({ owners }): the documented Array of ids or a Set of ids,
\* empty (the default) or with one owner
InitThrottle ==
  /\ commands = <<>>
  /\ groups = <<>>
  /\ unknownCommand = Null
  /\ types = <<>>
  /\ cmd = [c \in CmdIds |-> NoCommand]
  /\ guildDisabled = {}
  /\ \E owners \in {[isArray |-> a, ids |-> ids] : a \in BOOLEAN, ids \in {{}, {"o1"}}} :
       options = [prefix |-> <<"!">>, owners |-> owners, shard |-> TRUE]
  /\ provider = Null
  /\ settings = <<>>
  /\ db = Blacklisting
  /\ broadcasts = <<>>
  /\ runs = [p \in ThrottledCmds \X Senders |-> 0]
  /\ clock = 0
  /\ timers = <<>>
  /\ emitted = <<>>
  /\ result = [op |-> "new", status |-> "ok", error |-> "",
               value |-> "undefined", invoked |-> <<>>, replies |-> <<>>,
               rejected |-> FALSE, event |-> NoEvent, outcome |-> "returns"]

NextThrottle ==
  \/ RegisterGroup
  \/ Construct
  \/ Throttle
  \/ TimeoutFires
  \/ Tick

\* The commands' throttle objects as time passes
SpecThrottle == InitThrottle /\ [][NextThrottle]_vars

\* ------------------------------------------------------- unloading commands
NextUnload ==
  \/ Construct
  \/ RegisterCommand
  \/ Unload
  \/ HandleCommand

\* Commands made, registered, unloaded and dispatched to, the registry holding
\* a group object that commands can be registered in
SpecUnload == InitGroups /\ [][NextUnload]_vars

\* ---------------------------------------------------------------------------
\* The collector and the argument types
\* ---------------------------------------------------------------------------

\* The integer a raw token denotes, if it denotes one
C31_IntegerOf(tok) ==
  CASE tok = <<"5">> -> Some(5)
    [] tok = <<"1", "1">> -> Some(11)
    [] tok = <<"-", "3">> -> Some(0 - 3)
    [] OTHER -> None

C31_Within(arg, n) ==
  /\ arg.min # None => Val(arg.min) <= n
  /\ arg.max # None => n <= Val(arg.max)

\* C31: in a collection from tokens alone, every integer definition that is
\* given a token gets that integer under its key when the token is an integer
\* within the definition's min and max; the collection fails at the definition
\* with an out-of-range rejection when the token is an integer outside them,
\* and with a type rejection, never a range rejection, when the token is no
\* integer.
C31_IntegerBounds ==
  (result.op = "collect" /\ ~result.event.mode.conversational) =>
    \A i \in DOMAIN result.value.processed :
      LET arg == result.event.args[i]
          n == C31_IntegerOf(result.event.tokens[i])
          failedHere == result.value.failed = Some(arg.key)
      IN (arg.type = "integer" /\ i <= Len(result.event.tokens)) =>
           /\ (n # None /\ C31_Within(arg, Val(n))) <=>
                (~failedHere /\ get(result.value.values, arg.key) = Num(Val(n)))
           /\ (n # None /\ ~C31_Within(arg, Val(n))) <=>
                (failedHere /\ result.value.reason = "range")
           /\ n = None <=> (failedHere /\ result.value.reason = "type")

\* The specification's example: 11 for the integer between 1 and 10
C31_Witness ==
  /\ result.op = "collect"
  /\ ~result.event.mode.conversational
  /\ result.event.args[1] = ArgN
  /\ result.event.tokens = <<<<"1", "1">>>>
  /\ result.value.failed = Some("n")
  /\ result.value.reason = "range"

\* C32: a definition whose token is absent and whose default is not null gets
\* the default under its key, with no prompt and without its type's validate
\* having run; a definition without a default whose token is absent is filled
\* only from a reply to a prompt, which the type validated, or the collection
\* fails at it; the format shows a definition as optional exactly when its
\* default is not null.
C32_DefaultFillsAbsent ==
  result.op = "collect" =>
    \A i \in DOMAIN result.value.processed :
      LET arg == result.event.args[i]
          did == result.value.processed[i]
          failedHere == result.value.failed = Some(arg.key)
      IN /\ (format(result.event.args)[i].wrapL = "[") <=> (arg.default # None)
         /\ i > Len(result.event.tokens) =>
              IF arg.default # None
              THEN /\ ~failedHere
                   /\ get(result.value.values, arg.key) = Val(arg.default)
                   /\ did.validated = 0
                   /\ did.prompts = 0
              ELSE \/ failedHere
                   \/ did.prompts >= 1 /\ did.validated >= 1

\* The integer with the default 7 after a string, one token given
C32_Witness ==
  /\ result.op = "collect"
  /\ result.event.args = <<ArgT, ArgM>>
  /\ Len(result.event.tokens) = 1
  /\ result.value.ok
  /\ get(result.value.values, "m") = Num(7)
  /\ result.value.processed[2].validated = 0

\* The keys of the first n definitions of a schema, in their order
C33_Keys(args, n) == [i \in 1..n |-> args[i].key]

\* What a finished collection has to look like
C33_Outcome ==
  result.op = "collect" =>
    LET args == result.event.args
        mode == result.event.mode
        out == result.value
        n == Len(out.processed)
    IN \* the definitions were processed in their order, none twice
       /\ n <= Len(args)
       /\ [i \in 1..n |-> out.processed[i].key] = C33_Keys(args, n)
       \* a full argument object, or a failure that names one definition
       /\ out.ok =>
            /\ out.failed = None
            /\ n = Len(args)
            /\ [i \in DOMAIN out.values |-> out.values[i].k] = C33_Keys(args, Len(args))
       /\ ~out.ok =>
            /\ n >= 1
            /\ out.failed = Some(args[n].key)
            /\ out.reason \in {"type", "range", "oneOf", "absent", "retries", "cancelled"}
            \* the definitions before the failing one have their values, the
            \* ones after it were not touched
            /\ [i \in DOMAIN out.values |-> out.values[i].k] = C33_Keys(args, n - 1)
       \* without a conversation nothing is asked, and the failure is the
       \* rejection of the token itself
       /\ ~mode.conversational =>
            /\ \A i \in 1..n : out.processed[i].prompts = 0 /\ out.processed[i].validated <= 1
            /\ out.reason \in {"none", "type", "range", "oneOf", "absent"}
       \* in a conversation no definition is asked for more often than the limit
       /\ mode.conversational =>
            /\ \A i \in 1..n : out.processed[i].prompts <= mode.promptLimit
            /\ out.reason \in {"none", "retries", "cancelled"}
            /\ out.reason = "retries" => out.processed[n].prompts = mode.promptLimit

\* C33: every collection ends after a bounded number of validations and
\* prompts, with the full argument object or with a failure that names one
\* definition; definitions are processed in their declared
\* order; outside a conversation the collection fails at the first definition
\* whose value is rejected and leaves the later ones alone; in a conversation a
\* definition is asked for at most promptLimit times, after which the
\* collection fails.
C33_CollectionEnds ==
  /\ C33_Outcome
  \* the work of a collection is bounded: a definition's type validates its
  \* token and one reply for each prompt, and no more
  /\ result.op = "collect" =>
       \A i \in DOMAIN result.value.processed :
         /\ result.value.processed[i].validated <= result.value.processed[i].prompts + 1
         /\ result.value.processed[i].prompts <= Len(result.event.replies) + 1

\* A conversation that runs out of prompts: two rejected replies at limit 2
C33_Witness ==
  /\ result.op = "collect"
  /\ result.event.mode = [conversational |-> TRUE, promptLimit |-> 2]
  /\ result.event.args = <<ArgN, ArgD>>
  /\ result.value.failed = Some("n")
  /\ result.value.reason = "retries"
  /\ result.value.processed = <<[key |-> "n", prompts |-> 2, validated |-> 3]>>

\* C36: validate of the default-emoji type returns false for every value that
\* is not one emoji, whether or not oneOf lists the value; for an emoji that
\* oneOf does not list it returns the message with the options; it returns
\* true exactly when the value is one emoji and oneOf is absent or lists it.
C36_OneOfAfterType ==
  result.op = "validate" =>
    LET value == result.event.value
        arg == result.event.arg
        listed == arg.oneOf = None \/ includes(Val(arg.oneOf), value)
    IN /\ value \notin Emoji => result.value = Plain(FALSE)
       /\ (value \in Emoji /\ ~listed) => result.value = Options(Val(arg.oneOf))
       /\ result.value = Plain(TRUE) <=> (value \in Emoji /\ listed)

\* ---------------------------------------------------------------------------
\* The dispatcher and mentions
\* ---------------------------------------------------------------------------

\* A message without the prefix whose mention of the bot is not its first word
C35_MentionElsewhere(message) ==
  /\ message.kind = "message"
  /\ ~startsWith(message.content, options.prefix)
  /\ BotId \in message.mentions
  /\ split(message.content)[1] # <<"@">>

C34_TimersOf(c, userID) ==
  {i \in DOMAIN timers : timers[i].command = c /\ timers[i].userID = userID}

\* C34: a throttle call on a command with a throttling policy for a user who
\* is no owner returns the user's throttle object; the object has no usages,
\* its start is the time of the first call of the window, which later calls
\* leave alone, and one timeout is pending for it, due duration seconds after
\* the start; no throttle object outlives its window.
C34_FixedWindow ==
  /\ \A c \in CmdIds :
       \A i \in DOMAIN cmd[c]._throttles :
         clock <= cmd[c]._throttles[i].v.start + Val(Info(c).throttling).duration
  /\ (/\ result.op = "throttle"
      /\ Info(result.event.c).throttling # None
      /\ result.event.userID \notin options.owners.ids)
     => LET c == result.event.c
            userID == result.event.userID
        IN /\ result.status = "ok"
           /\ result.value = "throttle"
           /\ has(cmd[c]._throttles, userID)
           /\ get(cmd[c]._throttles, userID).usages = 0
           /\ get(cmd[c]._throttles, userID).start <= clock
           /\ \E i \in DOMAIN timers :
                /\ C34_TimersOf(c, userID) = {i}
                /\ timers[i].due = get(cmd[c]._throttles, userID).start
                                     + Val(Info(c).throttling).duration

\* Every throttle object has one pending timeout, its own, and every pending
\* timeout has its throttle object; a user has one throttle object at most
C38_OneToOne ==
  /\ \A c \in CmdIds :
       /\ \A i, j \in DOMAIN cmd[c]._throttles :
            cmd[c]._throttles[i].k = cmd[c]._throttles[j].k => i = j
       /\ \A i \in DOMAIN cmd[c]._throttles :
            \E t \in DOMAIN timers :
              /\ C34_TimersOf(c, cmd[c]._throttles[i].k) = {t}
              /\ timers[t].due = cmd[c]._throttles[i].v.start
                                   + Val(Info(c).throttling).duration
  /\ \A t \in DOMAIN timers : has(cmd[timers[t].command]._throttles, timers[t].userID)

\* A timeout that fires deletes the throttle object it was set for, and
\* nothing else
C38_FiresForItsOwn ==
  result'.op = "timeout" =>
    LET c == result'.event.c
        userID == result'.event.userID
    IN /\ has(cmd[c]._throttles, userID)
       /\ get(cmd[c]._throttles, userID).start + Val(Info(c).throttling).duration
            = result'.event.due
       /\ cmd'[c]._throttles = SelectSeq(cmd[c]._throttles, LAMBDA e : e.k # userID)
       /\ \A d \in CmdIds \ {c} : cmd'[d] = cmd[d]

\* C38: throttle objects and pending timeouts correspond one to one: a user
\* has at most one throttle object per command, every throttle object has
\* exactly one pending timeout, the one set when it was created, and a timeout
\* that fires deletes only the throttle object it was set for, never one of a
\* later window or of another user.
C38_RecordsAndTimers ==
  /\ []C38_OneToOne
  /\ [][C38_FiresForItsOwn]_vars

\* The timeout of one user fires while another user's throttle object, which
\* started later, stays
C38_Witness ==
  /\ result.op = "timeout"
  /\ \E i \in DOMAIN cmd[result.event.c]._throttles :
       /\ cmd[result.event.c]._throttles[i].k # result.event.userID
       /\ cmd[result.event.c]._throttles[i].v.start > 0

\* ---------------------------------------------------------------------------
\* Unloading
\* ---------------------------------------------------------------------------

C39_CacheIsRows ==
  \A guild \in Scopes :
    IF has(settings, guild)
    THEN \E i \in C27_Rows(guild) : db[i].settings = JSONstringify(get(settings, guild))
    ELSE \A i \in C27_Rows(guild) : db[i].settings = Malformed

\* A set has completed and the init that login starts completes after it
C39_InitAfterSet == result.op = "provider.set" /\ result'.op = "login"

\* C39: when the init that login starts completes after a set(scope, key, v),
\* get(scope, key, d) returns v and the cache holds what the rows hold.
C39_SetSurvivesInit ==
  [][C39_InitAfterSet =>
       /\ ~result.rejected
       /\ providerGet(result.event.guild, result.event.key,
                      C26_Default(result.event.key))' = Ret(result.event.val)
       /\ C39_CacheIsRows']_vars

\* C40: a get after set(scope, key, v) returns v and a get after
\* remove(scope, key) returns the default, whether the call rejected or not:
\* the cache is changed before the write and not rolled back; a call that
\* rejected has told the other shards nothing, and what a global call that
\* resolved told them is in the row by then.
C40_CacheBeforeWrite ==
  LET e == result.event
  IN /\ result.op = "provider.set" =>
          providerGet(e.guild, e.key, C26_Default(e.key)) = Ret(e.val)
     /\ result.op = "provider.remove" =>
          providerGet(e.guild, e.key, C26_Default(e.key)) = Ret(C26_Default(e.key))
     /\ result.op \in {"provider.set", "provider.remove"} =>
          IF result.rejected
          THEN \A i \in DOMAIN broadcasts : broadcasts[i].key # e.key
          ELSE e.guild = global /\ broadcasts # <<>> =>
                 \E i \in C27_Rows(global) :
                   db[i].settings = JSONstringify(get(settings, global))
====
